---------------------------- MODULE Spec2Model ----------------------------
(***************************************************************************)
(* A model of prometheus-middleware (package prometheusmiddleware,         *)
(* prometheus.go lines 147-352): NewPrometheusMiddleware, which creates    *)
(* and registers four instruments, and InstrumentHandlerDuration, which    *)
(* wraps a handler behind a responseWriterDelegator and records the four   *)
(* observations once the handler has returned.  Lines 1-146 of the file    *)
(* hold an earlier state of the same package (two instruments, recorded    *)
(* in detached goroutines); the model follows the later, four-instrument   *)
(* code.                                                                   *)
(*                                                                         *)
(* The collaborators are modelled by their documented behaviour at the     *)
(* places the code calls them: the default prometheus registry (Register   *)
(* refuses a second collector with the same fully-qualified name), the     *)
(* http.ResponseWriter behind the delegator (a log of the calls it         *)
(* receives), and gorilla/mux's CurrentRoute / GetPathTemplate.            *)
(***************************************************************************)
EXTENDS Integers, Sequences, FiniteSets, Bags, TLC

VARIABLES
    insts,      \* every *CounterVec / *HistogramVec created, by handle 1..Len
    registry,   \* handles registered with prometheus.DefaultRegisterer
    mws,        \* the PrometheusMiddleware structs returned so far
    newCalls,   \* the Opts of every NewPrometheusMiddleware call made so far
    logged,     \* the lines written by log.Println
    crashed,    \* a panic escaped NewPrometheusMiddleware
    reqs        \* per request: position in the wrapper, delegator, history

vars == <<insts, registry, mws, newCalls, logged, crashed, reqs>>

------------------------------------------------------------------------------
(* Bounds of the model.                                                    *)

\* NewPrometheusMiddleware calls in one process (Spec).
MaxMiddlewares == 2
\* Requests served in Spec.
MaxRegRequests == 1
\* Requests in flight at once in SpecConc.
MaxConcRequests == 2
\* Calls a handler makes on the sink in Spec and SpecConc.
MaxSmallCalls == 1
\* Calls a handler makes on the sink in SpecSink.
MaxSinkCalls == 3

------------------------------------------------------------------------------
(* Constants of the program.                                               *)

requestName == "http_requests_total"
latencyName == "http_request_duration_seconds"
responseSizeName == "response_size_bytes"
requestSizeName == "request_size_bytes"

\* dflBuckets, in tenths of a unit (0.3, 1.0, 2.5, 5.0).
dflBuckets == <<3, 10, 25, 50>>

\* http.StatusOK
StatusOK == 200

\* The value of http.Request.ContentLength that means "unknown".
UnknownLength == -1

------------------------------------------------------------------------------
(* The registry binding.                                                   *)

\* prometheus.BuildFQName: the non-empty parts joined by "_"; empty when the
\* name is empty.
BuildFQName(namespace, subsystem, name) ==
    IF name = "" THEN ""
    ELSE IF namespace # "" /\ subsystem # ""
         THEN namespace \o "_" \o subsystem \o "_" \o name
    ELSE IF namespace # "" THEN namespace \o "_" \o name
    ELSE IF subsystem # "" THEN subsystem \o "_" \o name
    ELSE name

\* The part of the state NewPrometheusMiddleware works on.
World == [insts |-> insts, registry |-> registry, logged |-> logged,
          crashed |-> crashed]

\* prometheus.NewCounterVec / NewHistogramVec: a fresh instrument with no
\* samples.  Its handle is its index in insts.
NewVec(w, kind, name, buckets) ==
    [w EXCEPT !.insts = Append(@, [name |-> name, kind |-> kind,
                                   buckets |-> buckets,
                                   samples |-> EmptyBag])]

\* prometheus.Register fails when a collector with the same fully-qualified
\* name is registered already.
RegisterFails(w, h) ==
    \E g \in w.registry : w.insts[g].name = w.insts[h].name

\* Mutant of OnRegisterError: the error is propagated as a panic, as
\* prometheus.MustRegister would.
OnRegisterErrorPanic(w, field) ==
    [w EXCEPT !.crashed = TRUE]

\* if err := prometheus.Register(x); err != nil { log.Println(...) }
OnRegisterError(w, field) ==
    [w EXCEPT !.logged =
        Append(@, "prometheusMiddleware." \o field \o " was not registered:")]

\* One New...Vec followed by its prometheus.Register.  Nothing runs after a
\* panic.
CreateAndRegister(w, kind, name, buckets, field) ==
    IF w.crashed THEN w
    ELSE LET w1 == NewVec(w, kind, name, buckets)
             h == Len(w1.insts)
         IN  IF RegisterFails(w1, h)
             THEN OnRegisterError(w1, field)
             ELSE [w1 EXCEPT !.registry = @ \cup {h}]

\* buckets := opts.Buckets; if len(buckets) == 0 { buckets = dflBuckets }
BucketsOf(opts) ==
    IF Len(opts.Buckets) = 0 THEN dflBuckets ELSE opts.Buckets

\* The state after the four instruments of one NewPrometheusMiddleware call.
\* counterOpts and histogramOpts carry opts.Subsystem; reqSizeOpts and
\* resSizeOpts set no Subsystem.
Constructed(w, opts) ==
    LET w1 == CreateAndRegister(w, "counter",
                  BuildFQName("", opts.Subsystem, requestName), <<>>,
                  "request")
        w2 == CreateAndRegister(w1, "histogram",
                  BuildFQName("", opts.Subsystem, latencyName),
                  BucketsOf(opts), "latency")
        w3 == CreateAndRegister(w2, "histogram",
                  BuildFQName("", "", requestSizeName),
                  BucketsOf(opts), "reqSize")
        w4 == CreateAndRegister(w3, "histogram",
                  BuildFQName("", "", responseSizeName),
                  BucketsOf(opts), "resSize")
    IN  w4

\* The struct a call returns when it began with n instruments created.
MiddlewareAt(n) ==
    [request |-> n + 1, latency |-> n + 2, reqSize |-> n + 3,
     resSize |-> n + 4]

\* func NewPrometheusMiddleware(opts Opts) *PrometheusMiddleware
NewPrometheusMiddleware(opts) ==
    /\ ~crashed
    /\ LET w == Constructed(World, opts)
       IN  /\ insts' = w.insts
           /\ registry' = w.registry
           /\ logged' = w.logged
           /\ crashed' = w.crashed
           /\ mws' = IF w.crashed THEN mws
                     ELSE Append(mws, MiddlewareAt(Len(insts)))
    /\ newCalls' = Append(newCalls, opts)
    /\ UNCHANGED reqs

------------------------------------------------------------------------------
(* Helpers of the wrapper.                                                 *)

Digit(d) ==
    CASE d = 0 -> "0" [] d = 1 -> "1" [] d = 2 -> "2" [] d = 3 -> "3"
      [] d = 4 -> "4" [] d = 5 -> "5" [] d = 6 -> "6" [] d = 7 -> "7"
      [] d = 8 -> "8" [] d = 9 -> "9"

\* strconv.Itoa: the decimal digits, most significant first.
RECURSIVE Itoa(_)
Itoa(n) ==
    IF n < 0 THEN "-" \o Itoa(-n)
    ELSE IF n < 10 THEN Digit(n)
    ELSE Itoa(n \div 10) \o Digit(n % 10)

\* func sanitizeCode(s int) string
sanitizeCode(s) == Itoa(s)

\* strings.ToLower, on the method spellings the model sends.
ToLower(m) ==
    CASE m = "GET" -> "get"
      [] m = "POST" -> "post"
      [] m = "Get" -> "get"
      [] OTHER -> m

\* func sanitizeMethod(m string) string
sanitizeMethod(m) == ToLower(m)

RECURSIVE SumOver(_, _)
SumOver(f, S) ==
    IF S = {} THEN 0
    ELSE LET x == CHOOSE y \in S : TRUE
         IN  f[x] + SumOver(f, S \ {x})

\* The total length of a sequence of strings.
ValuesLen(values) ==
    SumOver([i \in DOMAIN values |-> Len(values[i])], DOMAIN values)

\* for name, values := range r.Header { s += len(name); ... s += len(value) }
HeaderLen(header) ==
    SumOver([name \in DOMAIN header |->
                Len(name) + ValuesLen(header[name])], DOMAIN header)

\* func computeApproximateRequestSize(r *http.Request) int
computeApproximateRequestSize(r) ==
    LET s0 == IF r.URL.isNil THEN 0 ELSE Len(r.URL.Path)
        s1 == s0 + Len(r.Method) + Len(r.Proto) + HeaderLen(r.Header)
                 + Len(r.Host)
    IN  IF r.ContentLength # UnknownLength
        THEN s1 + r.ContentLength
        ELSE s1

------------------------------------------------------------------------------
(* The responseWriterDelegator.  Its embedded http.ResponseWriter is the   *)
(* log of the calls it has received, each Write with the count it          *)
(* returned.                                                               *)

\* delegate := &responseWriterDelegator{ResponseWriter: w}
NewDelegator ==
    [status |-> 0, written |-> 0, wroteHeader |-> FALSE, sink |-> <<>>]

SinkWriteHeader(code) ==
    [op |-> "WriteHeader", code |-> code, b |-> <<>>, n |-> 0]

SinkWrite(b, n) ==
    [op |-> "Write", code |-> 0, b |-> b, n |-> n]

\* Mutant of WriteHeader: the status is tapped and the call is not forwarded.
WriteHeaderNotForwarded(rw, code) ==
    [rw EXCEPT !.status = code, !.wroteHeader = TRUE]

\* func (r *responseWriterDelegator) WriteHeader(code int)
WriteHeader(rw, code) ==
    [rw EXCEPT !.status = code,
               !.wroteHeader = TRUE,
               !.sink = Append(@, SinkWriteHeader(code))]

\* Mutant of Write: counts the bytes offered, not the bytes the sink took.
WriteCountsOffered(rw, b, n) ==
    LET r1 == IF ~rw.wroteHeader THEN WriteHeader(rw, StatusOK) ELSE rw
    IN  [rw |-> [r1 EXCEPT !.sink = Append(@, SinkWrite(b, n)),
                           !.written = @ + Len(b)],
         n |-> n, err |-> n < Len(b)]

\* func (r *responseWriterDelegator) Write(b []byte) (int, error), where the
\* embedded writer takes n of the bytes and reports an error on a short
\* write.  The result is the delegator afterwards and the (n, err) returned.
Write(rw, b, n) ==
    LET r1 == IF ~rw.wroteHeader THEN WriteHeader(rw, StatusOK) ELSE rw
    IN  [rw |-> [r1 EXCEPT !.sink = Append(@, SinkWrite(b, n)),
                           !.written = @ + n],
         n |-> n, err |-> n < Len(b)]

------------------------------------------------------------------------------
(* The router.                                                             *)

\* mux.CurrentRoute(r) found no route.
NilRoute == [isNil |-> TRUE, hasPath |-> FALSE, template |-> ""]

\* A matched route built from a path template.
PathRoute(t) == [isNil |-> FALSE, hasPath |-> TRUE, template |-> t]

\* A matched route that was built without a path (a host-only route).
NoPathRoute == [isNil |-> FALSE, hasPath |-> FALSE, template |-> ""]

\* path, _ := route.GetPathTemplate(): the template, or "" with an error
\* that is dropped.  Only called on a route that is not nil.
GetPathTemplate(route) == IF route.hasPath THEN route.template ELSE ""

------------------------------------------------------------------------------
(* Requests.                                                               *)

NilURL == [isNil |-> TRUE, Path |-> ""]

URL(path) == [isNil |-> FALSE, Path |-> path]

NoHeader == [name \in {} |-> <<>>]

\* GET / with no header and no body.
PlainRequest(method) ==
    [URL |-> URL("/"), Method |-> method, Proto |-> "HTTP/1.1",
     Header |-> NoHeader, Host |-> "", ContentLength |-> 0]

NoLabels == [code |-> "", method |-> "", path |-> ""]

IdleRequest ==
    [pc |-> "idle", mw |-> 0, http |-> PlainRequest(""), route |-> NilRoute,
     rw |-> NewDelegator, calls |-> <<>>, labels |-> NoLabels]

\* The wrapper is entered: begin := time.Now(), a fresh delegator, and
\* next.ServeHTTP(rw, r) starts.
Serve(r, m, request, route) ==
    /\ ~crashed
    /\ reqs[r].pc = "idle"
    /\ m \in DOMAIN mws
    /\ reqs' = [reqs EXCEPT ![r] =
                  [pc |-> "serving", mw |-> m, http |-> request,
                   route |-> route, rw |-> NewDelegator, calls |-> <<>>,
                   labels |-> NoLabels]]
    /\ UNCHANGED <<insts, registry, mws, newCalls, logged, crashed>>

\* The inner handler calls rw.WriteHeader(code).
HandlerWriteHeader(r, code, maxCalls) ==
    /\ reqs[r].pc = "serving"
    /\ Len(reqs[r].calls) < maxCalls
    /\ reqs' = [reqs EXCEPT
                  ![r].rw = WriteHeader(@, code),
                  ![r].calls = Append(@, [op |-> "WriteHeader",
                                          code |-> code, b |-> <<>>,
                                          n |-> 0, err |-> FALSE])]
    /\ UNCHANGED <<insts, registry, mws, newCalls, logged, crashed>>

\* The inner handler calls rw.Write(b) and gets (n, err) back.
HandlerWrite(r, b, n, maxCalls) ==
    /\ reqs[r].pc = "serving"
    /\ Len(reqs[r].calls) < maxCalls
    /\ n \in 0..Len(b)
    /\ LET res == Write(reqs[r].rw, b, n)
       IN  reqs' = [reqs EXCEPT
                      ![r].rw = res.rw,
                      ![r].calls = Append(@, [op |-> "Write", code |-> 0,
                                              b |-> b, n |-> res.n,
                                              err |-> res.err])]
    /\ UNCHANGED <<insts, registry, mws, newCalls, logged, crashed>>

\* code := sanitizeCode(delegate.status); method := sanitizeMethod(r.Method)
LabelsOf(q) ==
    [code |-> sanitizeCode(q.rw.status),
     method |-> sanitizeMethod(q.http.Method),
     path |-> GetPathTemplate(q.route)]

\* next.ServeHTTP returns; route := mux.CurrentRoute(r) and
\* route.GetPathTemplate() follow.  GetPathTemplate reads a field of its
\* receiver, so on a nil route the wrapper panics before any instrument is
\* touched; net/http recovers the panic and the request is aborted.
HandlerReturn(r) ==
    /\ reqs[r].pc = "serving"
    /\ reqs' = [reqs EXCEPT ![r] =
                  IF reqs[r].route.isNil
                  THEN [reqs[r] EXCEPT !.pc = "panic"]
                  ELSE [reqs[r] EXCEPT !.pc = "rec_request",
                                       !.labels = LabelsOf(reqs[r])]]
    /\ UNCHANGED <<insts, registry, mws, newCalls, logged, crashed>>

\* vec.WithLabelValues(code, method, path).Inc() / .Observe(v): one more
\* sample under the label tuple, atomically.
Observe(is, h, labels, value) ==
    [is EXCEPT ![h].samples =
        @ (+) SetToBag({[labels |-> labels, value |-> value]})]

\* time.Since(begin), on the request's own logical clock: one tick for each
\* call the handler made.
Elapsed(q) == Len(q.calls)

\* p.request.WithLabelValues(code, method, path).Inc()
RecordRequest(r) ==
    /\ reqs[r].pc = "rec_request"
    /\ insts' = Observe(insts, mws[reqs[r].mw].request, reqs[r].labels, 1)
    /\ reqs' = [reqs EXCEPT ![r].pc = "rec_latency"]
    /\ UNCHANGED <<registry, mws, newCalls, logged, crashed>>

\* p.latency.WithLabelValues(...).Observe(time.Since(begin) / time.Second)
RecordLatency(r) ==
    /\ reqs[r].pc = "rec_latency"
    /\ insts' = Observe(insts, mws[reqs[r].mw].latency, reqs[r].labels,
                        Elapsed(reqs[r]))
    /\ reqs' = [reqs EXCEPT ![r].pc = "rec_reqSize"]
    /\ UNCHANGED <<registry, mws, newCalls, logged, crashed>>

\* p.reqSize.WithLabelValues(...).Observe(computeApproximateRequestSize(r))
RecordReqSize(r) ==
    /\ reqs[r].pc = "rec_reqSize"
    /\ insts' = Observe(insts, mws[reqs[r].mw].reqSize, reqs[r].labels,
                        computeApproximateRequestSize(reqs[r].http))
    /\ reqs' = [reqs EXCEPT ![r].pc = "rec_resSize"]
    /\ UNCHANGED <<registry, mws, newCalls, logged, crashed>>

\* Mutant of RecordResSize: the last block observes into p.reqSize again.
RecordResSizeIntoReqSize(r) ==
    /\ reqs[r].pc = "rec_resSize"
    /\ insts' = Observe(insts, mws[reqs[r].mw].reqSize, reqs[r].labels,
                        reqs[r].rw.written)
    /\ reqs' = [reqs EXCEPT ![r].pc = "done"]
    /\ UNCHANGED <<registry, mws, newCalls, logged, crashed>>

\* p.resSize.WithLabelValues(...).Observe(float64(delegate.written)), after
\* which the wrapper returns.
RecordResSize(r) ==
    /\ reqs[r].pc = "rec_resSize"
    /\ insts' = Observe(insts, mws[reqs[r].mw].resSize, reqs[r].labels,
                        reqs[r].rw.written)
    /\ reqs' = [reqs EXCEPT ![r].pc = "done"]
    /\ UNCHANGED <<registry, mws, newCalls, logged, crashed>>

------------------------------------------------------------------------------
(* Inputs.                                                                 *)

DefaultOpts == [Subsystem |-> "", Buckets |-> <<>>]

RegOpts ==
    {[Subsystem |-> "", Buckets |-> <<>>],
     [Subsystem |-> "a", Buckets |-> <<>>],
     [Subsystem |-> "b", Buckets |-> <<1, 5>>]}

\* Status codes and bodies of the handlers of SpecSink.
SinkCodes == {200, 404, 500}
SinkBodies == {<<>>, <<7>>, <<8, 9>>}

\* Status codes and bodies of the handlers of the other specifications,
\* whose writes are taken whole.
SmallCodes == {404}
SmallBodies == {<<1>>}

\* The status the handler of request r of SpecConc sets: one of its own, so
\* that a status taken from another request in flight shows.
ConcCode(r) == 403 + r

\* Method and matched route of the requests of SpecConc.
ConcInputs ==
    {<<"GET", PathRoute("/")>>, <<"POST", PathRoute("/users/{id}")>>,
     <<"GET", NilRoute>>}

\* The requests of SpecSize.
SizeRequests ==
    [URL : {NilURL, URL(""), URL("/metrics")},
     Method : {"GET", ""},
     Proto : {"HTTP/1.1"},
     Header : {NoHeader,
               ("Accept" :> <<"a/b">>),
               ("Accept" :> <<"x", "yz">>) @@ ("X" :> <<>>)},
     Host : {"", "example.com"},
     ContentLength : {-2, -1, 0, 7}]

SizeRoutes == {PathRoute("/metrics"), NoPathRoute}

------------------------------------------------------------------------------
(* Specifications.                                                         *)

EmptyWorld ==
    [insts |-> <<>>, registry |-> {}, logged |-> <<>>, crashed |-> FALSE]

\* The process before any NewPrometheusMiddleware call, with n request slots.
InitFresh(n) ==
    /\ insts = <<>>
    /\ registry = {}
    /\ mws = <<>>
    /\ newCalls = <<>>
    /\ logged = <<>>
    /\ crashed = FALSE
    /\ reqs = [r \in 1..n |-> IdleRequest]

\* The process after NewPrometheusMiddleware(Opts{}) has returned, with n
\* request slots.
InitOneMiddleware(n) ==
    /\ insts = Constructed(EmptyWorld, DefaultOpts).insts
    /\ registry = Constructed(EmptyWorld, DefaultOpts).registry
    /\ mws = <<MiddlewareAt(0)>>
    /\ newCalls = <<DefaultOpts>>
    /\ logged = Constructed(EmptyWorld, DefaultOpts).logged
    /\ crashed = FALSE
    /\ reqs = [r \in 1..n |-> IdleRequest]

\* What the wrapper does once the handler is done with the sink.
Finish(r) ==
    \/ HandlerReturn(r)
    \/ RecordRequest(r)
    \/ RecordLatency(r)
    \/ RecordReqSize(r)
    \/ RecordResSize(r)

\* Middlewares are constructed and requests run through any of them.
Init == InitFresh(MaxRegRequests)

Next ==
    \/ \E o \in RegOpts :
          Len(newCalls) < MaxMiddlewares /\ NewPrometheusMiddleware(o)
    \/ \E r \in DOMAIN reqs, m \in DOMAIN mws :
          Serve(r, m, PlainRequest("GET"), PathRoute("/"))
    \/ \E r \in DOMAIN reqs, code \in SmallCodes :
          HandlerWriteHeader(r, code, MaxSmallCalls)
    \/ \E r \in DOMAIN reqs, b \in SmallBodies :
          HandlerWrite(r, b, Len(b), MaxSmallCalls)
    \/ \E r \in DOMAIN reqs : Finish(r)

Spec == Init /\ [][Next]_vars

\* Requests run concurrently through one middleware.
InitConc == InitOneMiddleware(MaxConcRequests)

NextConc ==
    \/ \E r \in DOMAIN reqs, i \in ConcInputs :
          Serve(r, 1, PlainRequest(i[1]), i[2])
    \/ \E r \in DOMAIN reqs :
          HandlerWriteHeader(r, ConcCode(r), MaxSmallCalls)
    \/ \E r \in DOMAIN reqs, b \in SmallBodies :
          HandlerWrite(r, b, Len(b), MaxSmallCalls)
    \/ \E r \in DOMAIN reqs : Finish(r)

SpecConc == InitConc /\ [][NextConc]_vars

\* One request whose handler makes any sequence of calls on the sink, the
\* underlying writer taking any part of each write.
InitSink == InitOneMiddleware(1)

NextSink ==
    \/ Serve(1, 1, PlainRequest("GET"), PathRoute("/"))
    \/ \E code \in SinkCodes : HandlerWriteHeader(1, code, MaxSinkCalls)
    \/ \E b \in SinkBodies : \E n \in 0..Len(b) :
          HandlerWrite(1, b, n, MaxSinkCalls)
    \/ Finish(1)

SpecSink == InitSink /\ [][NextSink]_vars

\* One request of any shape.
InitSize == InitOneMiddleware(1)

NextSize ==
    \/ \E q \in SizeRequests, t \in SizeRoutes : Serve(1, 1, q, t)
    \/ \E code \in SmallCodes : HandlerWriteHeader(1, code, MaxSmallCalls)
    \/ \E b \in SmallBodies : HandlerWrite(1, b, Len(b), MaxSmallCalls)
    \/ Finish(1)

SpecSize == InitSize /\ [][NextSize]_vars

------------------------------------------------------------------------------
(* What the claims are stated over.                                        *)

\* The response an http.ResponseWriter ends with after a log of calls: its
\* first WriteHeader or first Write commits the status (a Write with no
\* status yet commits 200, a later WriteHeader is ignored), and every Write
\* adds the bytes it took to the body.
RECURSIVE Response(_)
Response(log) ==
    IF log = <<>> THEN [status |-> 0, body |-> <<>>]
    ELSE LET before == Response(SubSeq(log, 1, Len(log) - 1))
             c == log[Len(log)]
         IN  IF c.op = "WriteHeader"
             THEN [before EXCEPT !.status = IF @ = 0 THEN c.code ELSE @]
             ELSE [status |-> IF before.status = 0 THEN 200
                              ELSE before.status,
                   body |-> before.body \o SubSeq(c.b, 1, c.n)]

\* The calls of a handler as the sink receives them when made on it directly.
Direct(calls) ==
    [i \in DOMAIN calls |->
        IF calls[i].op = "WriteHeader" THEN SinkWriteHeader(calls[i].code)
        ELSE SinkWrite(calls[i].b, calls[i].n)]

\* The calls of a handler with a WriteHeader(200) put before a first Write
\* that no WriteHeader preceded.
RECURSIVE ForwardedFrom(_, _)
ForwardedFrom(calls, headerSeen) ==
    IF calls = <<>> THEN <<>>
    ELSE LET c == Head(calls)
         IN  IF c.op = "WriteHeader"
             THEN <<SinkWriteHeader(c.code)>>
                      \o ForwardedFrom(Tail(calls), TRUE)
             ELSE (IF headerSeen THEN <<>> ELSE <<SinkWriteHeader(200)>>)
                      \o <<SinkWrite(c.b, c.n)>>
                      \o ForwardedFrom(Tail(calls), TRUE)

Forwarded(calls) == ForwardedFrom(calls, FALSE)

\* The bytes a sink reported as written, over the Write calls of its log.
RECURSIVE BytesTaken(_)
BytesTaken(log) ==
    IF log = <<>> THEN 0
    ELSE (IF Head(log).op = "Write" THEN Head(log).n ELSE 0)
             + BytesTaken(Tail(log))

WriteHeaderCalls(calls) ==
    {i \in DOMAIN calls : calls[i].op = "WriteHeader"}

WriteCalls(calls) == {i \in DOMAIN calls : calls[i].op = "Write"}

\* The samples of instrument h under a label tuple.
CountUnder(h, labels) ==
    LET here == {s \in BagToSet(insts[h].samples) : s.labels = labels}
    IN  SumOver([s \in here |-> CopiesIn(s, insts[h].samples)], here)

Fields == {"request", "latency", "reqSize", "resSize"}

Handle(m, field) ==
    CASE field = "request" -> mws[m].request
      [] field = "latency" -> mws[m].latency
      [] field = "reqSize" -> mws[m].reqSize
      [] field = "resSize" -> mws[m].resSize

Done == {r \in DOMAIN reqs : reqs[r].pc = "done"}

------------------------------------------------------------------------------
(* The interposed sink (SpecSink).                                         *)

\* C1: a request whose handler returns without ever calling WriteHeader,
\* whether it wrote or not, is recorded under the code label "200".
C1_NoWriteHeaderRecords200 ==
    \A r \in Done :
        WriteHeaderCalls(reqs[r].calls) = {}
            => \A f \in Fields :
                  \A s \in BagToSet(insts[Handle(reqs[r].mw, f)].samples) :
                      s.labels.code = "200"

\* C5: the value observed into the response-size histogram is the sum of the
\* byte counts the underlying writer reported over the handler's Write
\* calls, and 0 when it made none.
C5_ResponseSizeIsSumOfWritten ==
    \A r \in Done :
        insts[mws[reqs[r].mw].resSize].samples =
            SetToBag({[labels |-> reqs[r].labels,
                       value |-> BytesTaken(reqs[r].rw.sink)]})

\* A finished request of several writes, one of them short.
C5_Witness ==
    \E r \in Done :
        /\ Cardinality(WriteCalls(reqs[r].calls)) >= 2
        /\ \E i \in WriteCalls(reqs[r].calls) : reqs[r].calls[i].err
        /\ BytesTaken(reqs[r].rw.sink) = 3

\* C7: the sink receives the handler's calls in order with the same
\* arguments, plus only a WriteHeader(200) before a first Write that no
\* WriteHeader preceded; the response it ends with is the one the same calls
\* made directly would give; and every Write returns the sink's (n, err).
C7_DelegatorIsTransparent ==
    \A r \in DOMAIN reqs :
        LET calls == reqs[r].calls
            sink == reqs[r].rw.sink
        IN  /\ sink = Forwarded(calls)
            /\ Response(sink) = Response(Direct(calls))
            /\ \A i \in WriteCalls(calls) :
                  calls[i].err = (calls[i].n < Len(calls[i].b))

\* A finished request that wrote first, short, and set a status afterwards.
C7_Witness ==
    \E r \in Done :
        LET calls == reqs[r].calls
        IN  /\ Len(calls) >= 2
            /\ calls[1].op = "Write"
            /\ calls[1].err
            /\ \E i \in WriteHeaderCalls(calls) : calls[i].code # 200
            /\ Len(Response(reqs[r].rw.sink).body) >= 1

\* The status of the first status event of a handler: the code of its first
\* call when that is a WriteHeader, 200 when it is a Write.
FirstStatus(calls) ==
    IF calls[1].op = "WriteHeader" THEN calls[1].code ELSE 200

\* C9: the recorded status is the one of the handler's first status event,
\* which is the status the real sink committed; later WriteHeader calls do
\* not change it.
C9_StatusFixedByFirstEvent ==
    \A r \in Done :
        reqs[r].calls # <<>>
            => /\ reqs[r].labels.code = Itoa(FirstStatus(reqs[r].calls))
               /\ reqs[r].labels.code
                      = Itoa(Response(reqs[r].rw.sink).status)

------------------------------------------------------------------------------
(* Concurrent requests through one middleware (SpecConc).                  *)

\* C3: a request for which mux.CurrentRoute returns nil still gets through
\* the wrapper once its handler has returned, and is recorded under the
\* path label "".
C3_NilRouteRecordedWithEmptyPath ==
    \A r \in DOMAIN reqs :
        (reqs[r].route.isNil /\ reqs[r].pc \notin {"idle", "serving"})
            => /\ reqs[r].pc # "panic"
               /\ reqs[r].labels.path = ""

\* Every request has finished recording (or was never made, or was aborted).
AllFinished == \A r \in DOMAIN reqs : reqs[r].pc \in {"idle", "done", "panic"}

\* The statuses a handler's own calls can account for.
OwnStatuses(calls) ==
    {calls[i].code : i \in WriteHeaderCalls(calls)}
        \cup (IF WriteCalls(calls) # {} THEN {200} ELSE {})
        \cup (IF calls = <<>> THEN {0} ELSE {})

\* The bytes a handler's own Write calls were told were written.
RECURSIVE OwnBytes(_)
OwnBytes(calls) ==
    IF calls = <<>> THEN 0
    ELSE (IF Head(calls).op = "Write" THEN Head(calls).n ELSE 0)
             + OwnBytes(Tail(calls))

\* C6: once all requests have finished recording, under every label tuple
\* the counter and each of the three histograms hold as many samples as
\* there are completed requests that produced the tuple, and every request
\* has recorded the status and byte count of its own handler.
C6_CountsMatchCompletedRequests ==
    AllFinished =>
        /\ \A f \in Fields :
              /\ BagCardinality(insts[Handle(1, f)].samples)
                     = Cardinality(Done)
              /\ \A r \in Done :
                    CountUnder(Handle(1, f), reqs[r].labels)
                        = Cardinality({q \in Done :
                                          reqs[q].labels = reqs[r].labels})
        /\ \A r \in Done :
              /\ \E c \in OwnStatuses(reqs[r].calls) :
                    reqs[r].labels.code = Itoa(c)
              /\ reqs[r].rw.written = OwnBytes(reqs[r].calls)
              /\ BagIn([labels |-> reqs[r].labels,
                        value |-> OwnBytes(reqs[r].calls)],
                       insts[Handle(1, "resSize")].samples)

\* Two requests that both wrote have finished under one label tuple, and the
\* counter stands at 2 under it.
C6_Witness ==
    /\ AllFinished
    /\ \E r, q \in Done :
          /\ r # q
          /\ reqs[r].labels = reqs[q].labels
          /\ reqs[r].calls # <<>>
          /\ CountUnder(Handle(1, "request"), reqs[r].labels) = 2

------------------------------------------------------------------------------
(* The registry binding (Spec).                                            *)

BaseName(field) ==
    CASE field = "request" -> requestName
      [] field = "latency" -> latencyName
      [] field = "reqSize" -> requestSizeName
      [] field = "resSize" -> responseSizeName

\* The names of the four instruments of middleware m.
NamesOf(m) == {insts[Handle(m, f)].name : f \in Fields}

\* C2: with a non-empty Subsystem all four instruments are named with the
\* subsystem as prefix, so middlewares of different subsystems share no
\* instrument name.
C2_AllFourNamesPrefixed ==
    /\ \A m \in DOMAIN mws :
          newCalls[m].Subsystem # ""
              => \A f \in Fields :
                    insts[Handle(m, f)].name
                        = newCalls[m].Subsystem \o "_" \o BaseName(f)
    /\ \A m, k \in DOMAIN mws :
          (/\ newCalls[m].Subsystem # ""
           /\ newCalls[k].Subsystem # ""
           /\ newCalls[m].Subsystem # newCalls[k].Subsystem)
              => NamesOf(m) \cap NamesOf(k) = {}

\* C4: however often NewPrometheusMiddleware is called, no call panics,
\* every call returns a middleware with its four instruments set, and every
\* failed registration is logged and nothing more.
C4_ConstructionNeverPanics ==
    /\ ~crashed
    /\ Len(mws) = Len(newCalls)
    /\ \A m \in DOMAIN mws :
          /\ \A f \in Fields : Handle(m, f) \in DOMAIN insts
          /\ Cardinality({Handle(m, f) : f \in Fields}) = 4
    /\ Len(logged) = Cardinality(DOMAIN insts \ registry)

\* Two calls with the same Opts have returned, the second after four
\* duplicate registrations.
C4_Witness ==
    /\ Len(mws) >= 2
    /\ newCalls[1] = newCalls[2]
    /\ Len(logged) = 4
    /\ mws[2].resSize \notin registry

\* C10: what a request records through an instrument whose registration
\* failed is found in the instrument registered under that name.
C10_DuplicateRecordsIntoRegistered ==
    \A r \in Done : \A f \in Fields :
        LET h == Handle(reqs[r].mw, f)
        IN  h \notin registry
                => \E g \in registry :
                      /\ insts[g].name = insts[h].name
                      /\ CountUnder(g, reqs[r].labels) >= 1

------------------------------------------------------------------------------
(* The approximate request size (SpecSize).                                *)

\* The terms of the size other than the content length.
OtherTerms(r) ==
    (IF r.URL.isNil THEN 0 ELSE Len(r.URL.Path))
        + Len(r.Method) + Len(r.Proto) + HeaderLen(r.Header) + Len(r.Host)

\* C8: the size is the sum of the other terms plus the content length
\* exactly when that is known and not negative, so it is never below the
\* sum of the other terms.
C8_SizeAddsOnlyNonNegativeLength ==
    \A r \in Done :
        LET size == computeApproximateRequestSize(reqs[r].http)
            cl == reqs[r].http.ContentLength
        IN  /\ size = OtherTerms(reqs[r].http) + (IF cl >= 0 THEN cl ELSE 0)
            /\ size >= OtherTerms(reqs[r].http)
            /\ BagIn([labels |-> reqs[r].labels, value |-> size],
                     insts[mws[reqs[r].mw].reqSize].samples)

=============================================================================
